---- MODULE Spec2Model ----
(***************************************************************************)
(* Process supervisor of llama-cpp-py: LlamaSyncServer / LlamaAsyncServer  *)
(* (start, wait_for_server_ready, stop) over the base configuration of     *)
(* LlamaBaseServer (specification Spec), the token post-processor of the   *)
(* streaming clients (specification StreamSpec) and the output relay of    *)
(* the server (specification RelaySpec).  Each specification moves the     *)
(* variables of its own component and leaves the others at rest.           *)
(*                                                                         *)
(* One supervisor instance is modelled.  Its callers serialise start() and *)
(* stop(); the supervised OS processes run concurrently with it and may    *)
(* exit at any moment.  A call is split at its suspension points (the      *)
(* sleep of the polling loop, the wait for the process exit) so that the   *)
(* process can exit between them.                                          *)
(*                                                                         *)
(* Library behaviour the code relies on (CPython >= 3.10, which the        *)
(* "str | Path" annotations require):                                      *)
(*  - subprocess.Popen.terminate()/kill() return silently when the child   *)
(*    has already exited (send_signal polls first and suppresses           *)
(*    ProcessLookupError);                                                 *)
(*  - asyncio.subprocess.Process.terminate()/kill() raise                  *)
(*    ProcessLookupError once the event loop has seen the child exit       *)
(*    (BaseSubprocessTransport._check_proc), and signal silently before;   *)
(*  - comparing a float with a str raises TypeError.                       *)
(***************************************************************************)
EXTENDS Integers, Sequences, FiniteSets, TLC

(* ------------------------------ bounds -------------------------------- *)
\* number of processes one instance may spawn in a run
MaxSpawn == 2
\* number of HTTP 503 answers the server may give during one start()
Max503 == 3
\* largest numeric readiness budget tried (the default 300 scaled down)
MaxTimeout == 2
\* number of consecutive stop() calls a caller makes without a start()
MaxStops == 2

(* ------------------------- program constants -------------------------- *)
\* base.py:66   self.timeout_to_stop_process = 3
timeout_to_stop_process == 3
\* sync.py:151  time.sleep(1)        async_.py:159  asyncio.sleep(1)
SleepInterval == 1
\* sync.py:139  requests.get(url, timeout=2)
RequestTimeout == 2

Variants == {"sync", "async"}
ExitCodes == {0, 1}
\* the Python value None for a handle (process ids are 1..MaxSpawn)
None == 0
\* Optional values: <<>> is None, <<v>> is the value v
NoValue == <<>>

VARIABLES
    host,               \* env.get('LLAMA_ARG_HOST') of the launch environment
    port,               \* env.get('LLAMA_ARG_PORT') of the launch environment
    variant,            \* "sync": LlamaSyncServer, "async": LlamaAsyncServer
    wait_for_ready,     \* self.wait_for_ready
    timeoutKind,        \* "num": self.timeout_wait_for_server_ready is a number
                        \* "str": it is the string read from the environment
    timeout,            \* its numeric value (when timeoutKind = "num")
    process,            \* self.process: None or the pid held
    procs,              \* the OS processes: pid -> [st, rc, sig]
    spawned,            \* number of processes spawned so far
    pc,                 \* position of the (single, serialised) caller
    result,             \* the call in flight / last completed and its outcome
    clock,              \* time.monotonic() since wait_for_server_ready began
    start_time,         \* local start_time of wait_for_server_ready
    model_loading,      \* local model_loading of wait_for_server_ready
    probes,             \* health requests issued by the current start()
    n503,               \* of which answered 503
    got200,             \* a 200 was received by the current start()
    probesAfter200,     \* health requests issued after that 200
    loadingLogs,        \* 'Model is loading (503), waiting...' messages logged
    only503,            \* every non-200 outcome so far was a 503
    failCause,          \* why wait_for_server_ready failed: none/timeout/exited/exception
    exitObs,            \* NoValue, or <<ret, clock, probes>> when poll() gave ret
    aliveAtCheck,       \* the process was running at the last exit check
    stopRet,            \* who called the stop() in progress
    stopOutcome,        \* "ok" or the exception leaving stop()
    pendingExc,         \* exception being handled in start()'s except clause
    calls,              \* signal calls made by the stop() in progress / last
    stopWaited,         \* time waited for the exit after terminate()
    stopPid,            \* the handle held when stop() was entered
    stopEnteredExited,  \* that process had already exited at that moment
    stopDone,           \* number of stop() calls of this start() that returned
    stopsInRow          \* consecutive caller-level stop() calls completed

VARIABLES
    show_thinking,      \* argument of stream() / process_output_token
    return_per_token,   \* argument of stream() / process_output_token
    out_token_in_thinking_mode,  \* the placeholder ('' stands for '' and None)
    state,              \* stream()'s dict(response_text=..., is_in_thinking=...)
    steps,              \* one record per token processed so far
    yields,             \* what stream() has yielded so far
    state2,             \* the same stream fed the raw spelling of every tag
    steps2

VARIABLES
    clientKind,         \* "sync" (LlamaSyncClient) or "async" (LlamaAsyncClient)
    events,             \* delta.content of the response events delivered
    rawTokens,          \* what the raw token generator has yielded
    transport,          \* "ok", or "failed" once the chat stream broke
    streamStatus        \* "open", "completed", or "raised"

VARIABLES
    probeOp,            \* the probe last called
    getOutcome,         \* what the underlying GET did in that call
    probeResult,        \* what the probe returned, or the exception it raised
    probeCalls          \* number of probes called so far

VARIABLES
    verbose,            \* constructor argument
    plumbing,           \* "sync" or "async": whose start() spawned
    sink,               \* what the child's stdout/stderr are connected to
    pipe,               \* bytes written to the pipe and not yet read
    toWrite,            \* bytes the server still writes before it is ready
    child,              \* "none", "running", "exited"
    relayTask,          \* the log_output thread: "none", "running", "ended"
    caller,             \* "idle", "started", "stopping", "stopped"
    relayedAfterStop    \* the relay printed after stop() had returned

VARIABLES
    buffer,             \* state['buffer'] of log_output
    last_was_cr,        \* state['last_was_cr'] of log_output
    printed,            \* what the relay has printed so far
    nread,              \* number of bytes read from the stream
    relayPc,            \* "reading", or "closed" after the zero-length read
    lastByte,           \* the last byte read and the state it was read in
    last_was_cr2,       \* the relay of the same stream without its
    printed2            \* undecodable segments

VARIABLES
    fmtArgs,            \* arguments of prepare_gradio_chatbot_messages_to_openai
    fmtMessages,        \* the list it returned
    fmtDone             \* the call has returned

VARIABLES
    cache,              \* the release directory of every tag
    completed,          \* a download-and-extract for the tag ran to its end
    lastConstruct,      \* what the last construction of the manager did
    constructions       \* number of constructions so far

VARIABLES
    environ,            \* os.environ: a function from names to values
    envCalls            \* the clear calls made so far, with what they did

clientVars == <<show_thinking, return_per_token, out_token_in_thinking_mode,
                state, steps, yields, state2, steps2>>
relayVars == <<buffer, last_was_cr, printed, nread, relayPc, lastByte,
               last_was_cr2, printed2>>

chatVars == <<clientKind, events, rawTokens, transport, streamStatus>>

fmtVars == <<fmtArgs, fmtMessages, fmtDone>>
envVars == <<environ, envCalls>>
cacheVars == <<cache, completed, lastConstruct, constructions>>
utilVars == <<fmtVars, envVars, cacheVars>>

probeVars == <<probeOp, getOutcome, probeResult, probeCalls>>

outVars == <<verbose, plumbing, sink, pipe, toWrite, child, relayTask, caller,
             relayedAfterStop>>

cfgVars == <<host, port, variant, wait_for_ready, timeoutKind, timeout>>
waitVars == <<clock, start_time, model_loading, probes, n503, got200,
              probesAfter200, loadingLogs, only503, failCause, exitObs,
              aliveAtCheck>>
stopVars == <<stopRet, stopOutcome, pendingExc, calls, stopWaited, stopPid,
              stopEnteredExited, stopDone>>
supervisorVars == <<cfgVars, process, procs, spawned, pc, result, waitVars,
                    stopVars, stopsInRow>>
vars == <<supervisorVars, clientVars, relayVars, outVars, probeVars, chatVars,
          utilVars>>

nonSupervisorVars == <<clientVars, relayVars, outVars, probeVars, chatVars,
      utilVars>>
nonClientVars == <<supervisorVars, relayVars, outVars, probeVars, chatVars,
      utilVars>>
nonRelayVars == <<supervisorVars, clientVars, outVars, probeVars, chatVars,
      utilVars>>
nonOutVars == <<supervisorVars, clientVars, relayVars, probeVars, chatVars,
      utilVars>>
nonChatVars == <<supervisorVars, relayVars, outVars, probeVars,
      utilVars>>
nonProbeVars == <<supervisorVars, clientVars, relayVars, outVars, chatVars,
      utilVars>>
nonUtilVars == <<supervisorVars, clientVars, relayVars, outVars, probeVars,
                 chatVars>>
nonFmtVars == <<nonUtilVars, envVars, cacheVars>>
nonEnvVars == <<nonUtilVars, fmtVars, cacheVars>>
nonCacheVars == <<nonUtilVars, fmtVars, envVars>>

Pids == 1..MaxSpawn

Unborn == [st |-> "unborn", rc |-> NoValue, sig |-> "none"]
Running == [st |-> "running", rc |-> NoValue, sig |-> "none"]

(* ------------------------- LlamaBaseServer ---------------------------- *)
\* base.py:65  os.getenv('TIMEOUT_WAIT_FOR_SERVER') or 300 : the string of the
\* environment when it is set and non-empty, else the number 300 (scaled to
\* the numeric budgets 0..MaxTimeout here; set directly on the instance or
\* passed to wait_for_server_ready by a caller).
TimeoutConfigs ==
    {[kind |-> "num", value |-> t] : t \in 0..MaxTimeout}
        \cup {[kind |-> "str", value |-> 0]}

\* env.get(...) gives None for a missing variable, else its string
EnvValues == {"None", "", "set"}

\* only a missing variable is rejected, an empty one is accepted
MissingEndpointNoneOnly(h, p) == h = "None" \/ p = "None"

\* if not self.host or not self.port: raise ValueError(...)
MissingEndpoint(h, p) == h \in {"None", ""} \/ p \in {"None", ""}

\* No call made on the supervisor yet (self.process = None, base.py:74).
SupervisorFresh ==
    /\ process = None
    /\ procs = [p \in Pids |-> Unborn]
    /\ spawned = 0
    /\ pc = "new"
    /\ result = [op |-> "none", err |-> "none", carried |-> NoValue]
    /\ clock = 0
    /\ start_time = 0
    /\ model_loading = FALSE
    /\ probes = 0
    /\ n503 = 0
    /\ got200 = FALSE
    /\ probesAfter200 = 0
    /\ loadingLogs = 0
    /\ only503 = TRUE
    /\ failCause = "none"
    /\ exitObs = NoValue
    /\ aliveAtCheck = FALSE
    /\ stopRet = "none"
    /\ stopOutcome = "ok"
    /\ pendingExc = "none"
    /\ calls = <<>>
    /\ stopWaited = 0
    /\ stopPid = None
    /\ stopEnteredExited = FALSE
    /\ stopDone = 0
    /\ stopsInRow = 0

\* stream(): state = dict(response_text='', is_in_thinking=False), before the
\* first token of the response arrives.
InitialState == [response_text |-> "", is_in_thinking |-> FALSE]

StreamFresh ==
    /\ state = InitialState
    /\ steps = <<>>
    /\ yields = <<>>
    /\ state2 = InitialState
    /\ steps2 = <<>>

\* No stream() call in progress.
ClientAtRest ==
    /\ show_thinking = TRUE
    /\ return_per_token = TRUE
    /\ out_token_in_thinking_mode = ""
    /\ StreamFresh

\* log_output: state = {'buffer': b'', 'last_was_cr': False}, nothing read.
RelayFresh ==
    /\ buffer = <<>>
    /\ last_was_cr = FALSE
    /\ printed = <<>>
    /\ nread = 0
    /\ relayPc = "reading"
    /\ lastByte = NoValue
    /\ last_was_cr2 = FALSE
    /\ printed2 = <<>>

RelayAtRest == RelayFresh

\* No chat request sent.
ChatFresh ==
    /\ events = <<>>
    /\ rawTokens = <<>>
    /\ transport = "ok"
    /\ streamStatus = "open"

ChatAtRest ==
    /\ clientKind = "sync"
    /\ ChatFresh

\* prepare_gradio_chatbot_messages_to_openai not called.
NoArgs == [system_prompt |-> "", support_system_role |-> FALSE,
           history_len |-> 0, user_message |-> "", image_path |-> "",
           chatbot |-> <<>>, convert_to_openai_format |-> FALSE,
           use_responses_api |-> FALSE]

FormatAtRest ==
    /\ fmtArgs = NoArgs
    /\ fmtMessages = <<>>
    /\ fmtDone = FALSE

\* No variable set, no clear call made.
EnvAtRest ==
    /\ environ = <<>>
    /\ envCalls = <<>>

Tags == {"b1", "b2"}

\* A release directory that does not exist.
Absent == [zip |-> "absent", files |-> 0]

\* No release manager constructed, nothing on disk.
CacheAtRest ==
    /\ cache = [t \in Tags |-> Absent]
    /\ completed = [t \in Tags |-> FALSE]
    /\ lastConstruct = NoValue
    /\ constructions = 0

UtilsAtRest == FormatAtRest /\ EnvAtRest /\ CacheAtRest

\* No probe called yet.
ProbeAtRest ==
    /\ probeOp = "none"
    /\ getOutcome = NoValue
    /\ probeResult = NoValue
    /\ probeCalls = 0

\* start() not called: no child, nothing connected.
OutputFresh ==
    /\ sink = "none"
    /\ pipe = 0
    /\ toWrite = 0
    /\ child = "none"
    /\ relayTask = "none"
    /\ caller = "idle"
    /\ relayedAfterStop = FALSE

OutputAtRest ==
    /\ verbose = FALSE
    /\ plumbing = "sync"
    /\ OutputFresh

\* A supervisor on which no call is made while another component runs.
SupervisorAtRest ==
    /\ host = "set"
    /\ port = "set"
    /\ variant = "sync"
    /\ wait_for_ready = FALSE
    /\ timeoutKind = "num"
    /\ timeout = MaxTimeout
    /\ SupervisorFresh

\* The arguments and the environment the constructor is called with.
Init ==
    /\ host \in EnvValues
    /\ port \in EnvValues
    /\ variant \in Variants
    /\ wait_for_ready \in BOOLEAN
    /\ \E c \in TimeoutConfigs :
          /\ timeoutKind = c.kind
          /\ timeout = c.value
          \* the budget is read by wait_for_server_ready only
          /\ ~wait_for_ready => c = [kind |-> "num", value |-> MaxTimeout]
    /\ SupervisorFresh
    /\ ClientAtRest
    /\ RelayAtRest
    /\ OutputAtRest
    /\ ProbeAtRest
    /\ UtilsAtRest
    /\ ChatAtRest

\* LlamaBaseServer.__init__: the configuration error, or an instance with
\* self.process = None on which start() and stop() can be called.
Construct ==
    /\ pc = "new"
    /\ IF MissingEndpoint(host, port)
       THEN /\ result' = [op |-> "__init__", err |-> "ValueError", carried |-> NoValue]
            /\ pc' = "no_instance"
       ELSE /\ result' = [op |-> "__init__", err |-> "none", carried |-> NoValue]
            /\ pc' = "idle"
    /\ UNCHANGED <<nonSupervisorVars, cfgVars, process, procs, spawned, waitVars, stopVars,
                   stopsInRow>>

(* ----------------------- the supervised process ----------------------- *)
\* A running process exits on its own, or in answer to a signal.
ProcExit ==
    \E p \in Pids, code \in ExitCodes :
        /\ procs[p].st = "running"
        /\ procs' = [procs EXCEPT ![p] =
                        [st |-> "exited",
                         rc |-> <<code>>,
                         sig |-> procs[p].sig]]
        /\ UNCHANGED <<nonSupervisorVars, cfgVars, process, spawned, pc, result, waitVars,
                       stopVars, stopsInRow>>

(* --------------------- wait_for_server_ready -------------------------- *)
\* What the health URL can answer: a response with a status code, or a
\* requests.RequestException / aiohttp.ClientError / per-request timeout.
\* The health URL is served by the supervised process: once that process
\* has exited, requests can only fail.
Response(s) == [kind |-> "response", status |-> s]
RequestException == [kind |-> "exception", status |-> 0]
HealthOutcomes(st) ==
    IF st = "running"
    THEN {Response(200), Response(503), Response(404), RequestException}
    ELSE {RequestException}

\* self.process.poll() / self.process.returncode
Poll(p) == procs[p].rc

\* while time.monotonic() - start_time < timeout
LoopCondition(now, st, t) == now - st < t

\* the exit check forgotten: a dead process keeps being polled
PollNeverFails(ret) == FALSE

\* if ret is not None: ... return False
PollFails(ret) == ret # NoValue

\* any answer of the server taken for readiness
IsReadyOrLoading(r) == r.kind = "response" /\ r.status \in {200, 503}

\* if response.status_code == 200: return True
IsReady(r) == r.kind = "response" /\ r.status = 200

\* elif response.status_code == 503
IsLoading(r) == r.kind = "response" /\ r.status = 503

\* the flag is never set
ModelLoadingNeverSet(r, ml) == ml

\* if not model_loading: model_loading = True
ModelLoadingAfter(r, ml) == IF IsLoading(r) THEN TRUE ELSE ml

\* the budget is not reset on 503
StartTimeNeverReset(r, now, st) == st

\* the budget is reset on every answer that is not a 200
StartTimeAlwaysReset(r, now, st) == now

\* start_time = time.monotonic() in the 503 branch only
StartTimeAfter(r, now, st) == IF IsLoading(r) THEN now ELSE st

InFlight(op) == [op |-> op, err |-> "running", carried |-> NoValue]
Returned(op) == [op |-> op, err |-> "none", carried |-> NoValue]
\* raise TimeoutError('...') / re-raise: the exception carries a message only
Raised(op, e) == [op |-> op, err |-> e, carried |-> NoValue]

(* ------------------------------ start() -------------------------------- *)
\* the early return forgotten: the readiness wait always runs
NeverReturnsAfterSpawn(w) == FALSE

\* if not self.wait_for_ready: ... return
ReturnsAfterSpawn(w) == ~w

\* start() up to the first loop test of wait_for_server_ready:
\* self.process = Popen(...) replaces the handle, whatever it held.
StartCall ==
    /\ pc = "idle"
    /\ spawned < MaxSpawn
    /\ spawned' = spawned + 1
    /\ procs' = [procs EXCEPT ![spawned + 1] = Running]
    /\ process' = spawned + 1
    /\ clock' = 0
    /\ start_time' = 0
    /\ model_loading' = FALSE
    /\ probes' = 0
    /\ n503' = 0
    /\ got200' = FALSE
    /\ probesAfter200' = 0
    /\ loadingLogs' = 0
    /\ only503' = TRUE
    /\ failCause' = "none"
    /\ exitObs' = NoValue
    /\ aliveAtCheck' = FALSE
    /\ stopRet' = "none"
    /\ stopOutcome' = "ok"
    /\ pendingExc' = "none"
    /\ calls' = <<>>
    /\ stopWaited' = 0
    /\ stopPid' = None
    /\ stopEnteredExited' = FALSE
    /\ stopDone' = 0
    /\ stopsInRow' = 0
    /\ IF ReturnsAfterSpawn(wait_for_ready)
       THEN /\ result' = Returned("start")
            /\ pc' = "idle"
       ELSE /\ result' = InFlight("start")
            /\ pc' = "wait_check"
    /\ UNCHANGED <<nonSupervisorVars, cfgVars>>

\* One test of the while condition followed by the exit check.
WaitCheck ==
    /\ pc = "wait_check"
    /\ IF timeoutKind = "str"
       THEN \* float < str raises TypeError: caught by start()'s except Exception
            /\ failCause' = "exception"
            /\ pendingExc' = "TypeError"
            /\ stopRet' = "start_except"
            /\ pc' = "stop_enter"
            /\ UNCHANGED <<exitObs, aliveAtCheck>>
       ELSE IF ~LoopCondition(clock, start_time, timeout)
       THEN \* 'Server did not become ready within ...': return False
            /\ failCause' = "timeout"
            /\ stopRet' = "start_notready"
            /\ pc' = "stop_enter"
            /\ UNCHANGED <<pendingExc, exitObs, aliveAtCheck>>
       ELSE IF PollFails(Poll(process))
       THEN \* 'process exited unexpectedly with code ret': return False
            /\ failCause' = "exited"
            /\ exitObs' = <<Poll(process)[1], clock, probes>>
            /\ stopRet' = "start_notready"
            /\ pc' = "stop_enter"
            /\ UNCHANGED <<pendingExc, aliveAtCheck>>
       ELSE /\ aliveAtCheck' = (procs[process].st = "running")
            /\ pc' = "probe"
            /\ UNCHANGED <<failCause, exitObs, stopRet, pendingExc>>
    /\ UNCHANGED <<nonSupervisorVars, cfgVars, process, procs, spawned, result, clock, start_time,
                   model_loading, probes, n503, got200, probesAfter200,
                   loadingLogs, only503, stopOutcome, calls, stopWaited,
                   stopPid, stopEnteredExited, stopDone, stopsInRow>>

\* No wait issues more requests than this: every request that is not
\* answered 503 uses up at least one sleep of the budget, and every 503
\* starts the budget afresh.
MaxProbes == (Max503 + 1) * (MaxTimeout + 1)

ClockStands(now, dur) == now

\* The time after one iteration that did not return: the request took dur
\* and time.sleep(1) followed.
ClockAfter(now, dur) == now + dur + SleepInterval

\* One health request, the handling of its outcome and the sleep.
Probe ==
    /\ pc = "probe"
    /\ probes < MaxProbes
    /\ \E r \in HealthOutcomes(procs[process].st), dur \in {0, RequestTimeout} :
        /\ IsLoading(r) => n503 < Max503
        /\ probes' = probes + 1
        /\ probesAfter200' = probesAfter200 + (IF got200 THEN 1 ELSE 0)
        /\ n503' = n503 + (IF IsLoading(r) THEN 1 ELSE 0)
        /\ got200' = (got200 \/ (r.kind = "response" /\ r.status = 200))
        /\ only503' = (only503 /\ r.kind = "response" /\ r.status \in {200, 503})
        /\ IF IsReady(r)
           THEN \* return True; 'llama.cpp server ready'; start() returns
                /\ clock' = clock + dur
                /\ result' = Returned("start")
                /\ pc' = "idle"
                /\ UNCHANGED <<model_loading, loadingLogs, start_time>>
           ELSE /\ model_loading' = ModelLoadingAfter(r, model_loading)
                /\ loadingLogs' = loadingLogs +
                       (IF IsLoading(r) /\ ~model_loading THEN 1 ELSE 0)
                /\ start_time' = StartTimeAfter(r, clock + dur, start_time)
                /\ clock' = ClockAfter(clock, dur)
                /\ pc' = "wait_check"
                /\ UNCHANGED result
    /\ UNCHANGED <<nonSupervisorVars, cfgVars, process, procs, spawned, failCause, exitObs,
                   aliveAtCheck, stopVars, stopsInRow>>

(* ------------------------------- stop() -------------------------------- *)
\* if not self.process: return
StopReturnsEarly(p) == p = None

\* What terminate()/kill() can do.  On a running process the signal is sent.
\* On a process that has exited, Popen.send_signal returns silently; the
\* asyncio transport raises ProcessLookupError once the loop has seen the exit
\* and signals silently before that.
SignalOutcomes(v, exited) ==
    IF ~exited THEN {"signalled"}
    ELSE IF v = "sync" THEN {"noop"}
    ELSE {"lookup_error", "noop"}

\* terminate() before the try block in both variants
TerminateOutsideTry(v) == FALSE

\* self.process.terminate() is inside the try block in async_.py (line 121)
\* and before it in sync.py (line 93): only the former reaches the
\* except ProcessLookupError clause.
TerminateInTry(v) == v = "async"

\* the grace period cut short by one time unit
GraceExpiredEarly(w) == w >= timeout_to_stop_process - 1

\* wait(timeout=self.timeout_to_stop_process) gives up
GraceExpired(w) == w >= timeout_to_stop_process

\* stop() called by the caller
StopCall ==
    /\ pc = "idle"
    /\ stopsInRow < MaxStops
    /\ result' = InFlight("stop")
    /\ stopRet' = "user"
    /\ pc' = "stop_enter"
    /\ clock' = 0
    /\ start_time' = 0
    /\ model_loading' = FALSE
    /\ probes' = 0
    /\ n503' = 0
    /\ got200' = FALSE
    /\ probesAfter200' = 0
    /\ loadingLogs' = 0
    /\ only503' = TRUE
    /\ failCause' = "none"
    /\ exitObs' = NoValue
    /\ aliveAtCheck' = FALSE
    /\ pendingExc' = "none"
    /\ stopDone' = 0
    /\ UNCHANGED <<nonSupervisorVars, cfgVars, process, procs, spawned, stopOutcome, calls,
                   stopWaited, stopPid, stopEnteredExited, stopsInRow>>

\* Entry of stop(): the early return, or terminate().
StopEnter ==
    /\ pc = "stop_enter"
    /\ stopPid' = process
    /\ stopWaited' = 0
    /\ IF StopReturnsEarly(process)
       THEN /\ calls' = <<>>
            /\ stopEnteredExited' = FALSE
            /\ stopOutcome' = "ok"
            /\ pc' = "stop_exit"
            /\ UNCHANGED <<process, procs>>
       ELSE /\ calls' = <<"terminate">>
            /\ stopEnteredExited' = (procs[process].st = "exited")
            /\ \E o \in SignalOutcomes(variant, procs[process].st = "exited") :
                 IF o = "signalled"
                 THEN /\ procs' = [procs EXCEPT ![process].sig = "term"]
                      /\ stopOutcome' = "ok"
                      /\ pc' = "stop_wait"
                      /\ UNCHANGED process
                 ELSE IF o = "noop"
                 THEN /\ stopOutcome' = "ok"
                      /\ pc' = "stop_wait"
                      /\ UNCHANGED <<process, procs>>
                 ELSE IF TerminateInTry(variant)
                 THEN \* except ProcessLookupError: 'already terminated'
                      /\ process' = None
                      /\ stopOutcome' = "ok"
                      /\ pc' = "stop_exit"
                      /\ UNCHANGED procs
                 ELSE /\ stopOutcome' = "ProcessLookupError"
                      /\ pc' = "stop_exit"
                      /\ UNCHANGED <<process, procs>>
    /\ UNCHANGED <<nonSupervisorVars, cfgVars, spawned, result, waitVars, stopRet, pendingExc,
                   stopDone, stopsInRow>>

\* The wait for the exit after terminate(): it returns, time passes, or it
\* times out and kill() is called from the except clause.
StopWait ==
    /\ pc = "stop_wait"
    /\ LET exited == procs[process].st = "exited" IN
        \/ /\ exited
           \* 'llama.cpp server stopped correctly'
           /\ process' = None
           /\ pc' = "stop_exit"
           /\ UNCHANGED <<procs, calls, stopWaited, stopOutcome>>
        \/ /\ ~exited
           /\ ~GraceExpired(stopWaited)
           /\ stopWaited' = stopWaited + 1
           /\ UNCHANGED <<process, procs, calls, pc, stopOutcome>>
        \/ /\ GraceExpired(stopWaited)
           \* 'The server did not respond to terminate(), killing it ...'
           /\ calls' = Append(calls, "kill")
           /\ \E o \in SignalOutcomes(variant, exited) :
                IF o = "signalled"
                THEN /\ procs' = [procs EXCEPT ![process].sig = "kill"]
                     /\ pc' = "stop_killed"
                     /\ UNCHANGED <<process, stopOutcome>>
                ELSE IF o = "noop"
                THEN /\ pc' = "stop_killed"
                     /\ UNCHANGED <<process, procs, stopOutcome>>
                ELSE \* kill() raises inside the except clause: it leaves stop()
                     /\ stopOutcome' = "ProcessLookupError"
                     /\ pc' = "stop_exit"
                     /\ UNCHANGED <<process, procs>>
           /\ UNCHANGED stopWaited
    /\ UNCHANGED <<nonSupervisorVars, cfgVars, spawned, result, waitVars, stopRet, pendingExc,
                   stopPid, stopEnteredExited, stopDone, stopsInRow>>

\* self.process.wait() after kill(), then self.process = None
StopKilled ==
    /\ pc = "stop_killed"
    /\ procs[process].st = "exited"
    /\ process' = None
    /\ pc' = "stop_exit"
    /\ UNCHANGED <<nonSupervisorVars, cfgVars, procs, spawned, result, waitVars, stopVars,
                   stopsInRow>>

PcAfterFailedStartPollsAgain == "wait_check"

\* except Exception: self.stop(); raise -- start() is left, nothing follows.
PcAfterFailedStart == "idle"

\* stop() returns or raises to whoever called it.
StopExit ==
    /\ pc = "stop_exit"
    /\ IF stopRet = "user"
       THEN /\ result' = (IF stopOutcome = "ok" THEN Returned("stop")
                          ELSE Raised("stop", stopOutcome))
            /\ stopsInRow' = stopsInRow + 1
            /\ pc' = "idle"
            /\ UNCHANGED <<stopRet, pendingExc, stopDone>>
       ELSE IF stopRet = "start_notready"
       THEN \* stop() returned: raise TimeoutError(...); either way the
            \* exception is caught by except Exception, which calls stop()
            /\ pendingExc' = (IF stopOutcome = "ok" THEN "TimeoutError"
                              ELSE stopOutcome)
            /\ stopDone' = stopDone + (IF stopOutcome = "ok" THEN 1 ELSE 0)
            /\ stopRet' = "start_except"
            /\ pc' = "stop_enter"
            /\ UNCHANGED <<result, stopsInRow>>
       ELSE \* stop() of the except clause: raise, unless stop() itself raised
            /\ result' = Raised("start", IF stopOutcome = "ok" THEN pendingExc
                                         ELSE stopOutcome)
            /\ stopDone' = stopDone + (IF stopOutcome = "ok" THEN 1 ELSE 0)
            /\ pc' = PcAfterFailedStart
            /\ UNCHANGED <<stopRet, pendingExc, stopsInRow>>
    /\ UNCHANGED <<nonSupervisorVars, cfgVars, process, procs, spawned, waitVars, stopOutcome,
                   calls, stopWaited, stopPid, stopEnteredExited>>

Next ==
    \/ Construct
    \/ StartCall
    \/ WaitCheck
    \/ Probe
    \/ StopCall
    \/ StopEnter
    \/ StopWait
    \/ StopKilled
    \/ StopExit
    \/ ProcExit

Spec == Init /\ [][Next]_vars

TypeOK ==
    /\ variant \in Variants
    /\ wait_for_ready \in BOOLEAN
    /\ timeoutKind \in {"num", "str"}
    /\ timeout \in 0..MaxTimeout
    /\ process \in {None} \cup Pids
    /\ spawned \in 0..MaxSpawn
    /\ host \in EnvValues
    /\ port \in EnvValues
    /\ pc \in {"new", "no_instance", "idle", "wait_check", "probe", "stop_enter", "stop_wait",
               "stop_killed", "stop_exit"}
    /\ failCause \in {"none", "timeout", "exited", "exception"}
    /\ stopWaited \in 0..timeout_to_stop_process
    /\ n503 \in 0..Max503
    /\ stopsInRow \in 0..MaxStops

(* ------------------------------ claims --------------------------------- *)
Range(f) == {f[i] : i \in DOMAIN f}
StartFailed == result.op = "start" /\ result.err \notin {"none", "running"}
StartReturned == result = Returned("start")
StopCompleted == result.op = "stop" /\ result.err # "running"

\* C1: every process the instance spawned that is still running is the one
\* held in its handle (no spawned process runs without the supervisor
\* holding it), whatever sequence of start() and stop() was called.
C1_NoOrphanProcess ==
    \A p \in Pids : procs[p].st = "running" => process = p

\* C2: when start() with wait_for_ready=true fails, a stop() has run to
\* completion before the error reaches the caller, the handle is None and the
\* spawned process has exited.
C2_FailedStartIsProcessFree ==
    (wait_for_ready /\ StartFailed) =>
        /\ stopDone >= 1
        /\ process = None
        /\ procs[spawned].st = "exited"

C4_ExitFailsFast ==
    /\ pc = "probe" => aliveAtCheck
    /\ exitObs # NoValue =>
        /\ failCause = "exited"
        /\ pc \notin {"wait_check", "probe"}
        /\ probes = exitObs[3]
        /\ clock = exitObs[2]

C4_Witness ==
    /\ exitObs # NoValue
    /\ probes >= 1
    /\ LoopCondition(clock, start_time, timeout)
    /\ StartFailed

\* C5: when the process died during startup, the error start() raises is a
\* process-exited error carrying the exit code, not the error raised when
\* the budget expires.
C5_ExitErrorIsDistinct ==
    (StartFailed /\ failCause = "exited") =>
        /\ result.err = "ProcessExitedError"
        /\ result.carried = <<exitObs[1]>>

\* C6: a caller's stop() raises no error, leaves the handle None, and a
\* second stop() in a row returns without any signal call.
C6_StopIdempotent ==
    (StopCompleted /\ pc = "idle") =>
        /\ result.err = "none"
        /\ process = None
        /\ stopsInRow >= 2 => calls = <<>>

\* C7: in a stop() on an owned process terminate() comes first, kill() is
\* called only after it and only once the full grace period has been waited,
\* and when stop() returns the exit of the process has been confirmed and the
\* handle is cleared.
C7_GracefulThenKill ==
    /\ calls # <<>> => calls[1] = "terminate"
    /\ "kill" \in Range(calls) =>
        /\ calls = <<"terminate", "kill">>
        /\ stopWaited = timeout_to_stop_process
    /\ (pc = "stop_exit" /\ stopOutcome = "ok" /\ stopPid # None) =>
        /\ procs[stopPid].st = "exited"
        /\ process = None

C7_Witness ==
    /\ pc = "stop_exit" /\ stopOutcome = "ok" /\ stopPid # None
    /\ calls = <<"terminate", "kill">>

\* C8: a stop() entered while the owned process has already exited raises
\* nothing, sends no kill and leaves stop() with the handle cleared, in both
\* variants.
C8_AlreadyExitedTolerated ==
    stopEnteredExited =>
        /\ stopOutcome = "ok"
        /\ "kill" \notin Range(calls)
        /\ pc \in {"stop_exit", "idle"} => process = None

C8_Witness ==
    /\ stopEnteredExited /\ variant = "async"
    /\ StopCompleted /\ pc = "idle" /\ result.err = "none" /\ process = None

\* C9: with wait_for_ready=true, start() has returned normally only if a
\* probe of that start() got a 200; no probe follows the 200 and the
\* instance still owns the process it spawned.
C9_ReadyOnlyOn200 ==
    (wait_for_ready /\ StartReturned) =>
        /\ got200
        /\ probesAfter200 = 0
        /\ process = spawned
        /\ process # None

C9_Witness ==
    wait_for_ready /\ StartReturned /\ probes >= 2

\* C10: in one readiness wait the 'model is loading' message is logged at
\* most once, and exactly once if at least one 503 was observed.
C10_LoadingLoggedOnce ==
    /\ loadingLogs <= 1
    /\ loadingLogs = 1 <=> n503 >= 1

C10_Witness ==
    /\ n503 = 3 /\ loadingLogs = 1 /\ got200 /\ ~only503 /\ StartReturned

\* C11: a health answer other than 200 or 503, a connection failure or a
\* per-request timeout neither ends the polling nor resets the budget: while
\* only such outcomes were seen the budget is still measured from the start
\* of the wait, a request is issued only within it, each request is followed
\* by one sleep of the fixed interval, and the wait fails on its budget only
\* once the time since its start has reached the timeout.
OnlyTransient == probes >= 1 /\ n503 = 0 /\ ~got200

C11_TransientKeepsBudget ==
    (wait_for_ready /\ OnlyTransient) =>
        /\ start_time = 0
        /\ ~StartReturned
        /\ failCause \in {"none", "timeout", "exited"}
        /\ failCause = "none" => pc \in {"wait_check", "probe"}
        /\ pc = "probe" => clock < timeout
        /\ pc = "wait_check" =>
            /\ clock >= probes * SleepInterval
            /\ clock <= probes * (SleepInterval + RequestTimeout)
        /\ failCause = "timeout" => clock >= timeout

C11_Witness ==
    /\ wait_for_ready /\ OnlyTransient /\ probes >= 2
    /\ failCause = "timeout" /\ StartFailed
    /\ procs[spawned].sig # "none"

\* C12: with wait_for_ready=false start() returns right after the spawn: no
\* health probe, no stop(), no error, and the instance owns the process it
\* spawned, whatever state the server is in.
C12_NoWaitReturnsAfterSpawn ==
    (~wait_for_ready /\ result.op = "start") =>
        /\ StartReturned
        /\ pc = "idle"
        /\ probes = 0
        /\ stopRet = "none"
        /\ calls = <<>>
        /\ process = spawned
        /\ process # None

C12_Witness ==
    /\ ~wait_for_ready /\ StartReturned
    /\ process = spawned /\ procs[process].st = "running"

\* C13: if the host or the port is missing or empty in the launch
\* environment, the constructor fails with the configuration error and no
\* process is ever spawned: no start() or stop() runs on that instance.
C13_ConfigErrorBeforeSpawn ==
    (host \in {"None", ""} \/ port \in {"None", ""}) =>
        /\ pc \in {"new", "no_instance"}
        /\ pc = "no_instance" => (result.op = "__init__" /\ result.err = "ValueError")
        /\ spawned = 0
        /\ process = None
        /\ \A p \in Pids : procs[p].st = "unborn"

C13_Witness ==
    /\ pc = "no_instance" /\ host = "set" /\ port = ""
    /\ result.err = "ValueError"

(***************************************************************************)
(* Token post-processor: LlamaBaseClient.process_output_token as applied   *)
(* by stream() / astream() to the tokens of one response.                  *)
(***************************************************************************)

MaxTokens == 5

\* LlamaBaseClient.opening_thinking_tags / closing_thinking_tags.
opening_thinking_tags == {"<think>", "&lt;think&gt;"}

ClosingRawOnly == {"</think>"}

closing_thinking_tags == {"</think>", "&lt;/think&gt;"}

\* The delta.content values a response can carry: tags in both spellings,
\* ordinary text, and the empty string (content is only required not None).
Tokens == {"<think>", "&lt;think&gt;", "</think>", "&lt;/think&gt;", "A", "B", ""}

Placeholders == {"", "Thinking ..."}

\* `return` with no value.
ReturnNone == <<>>

\* `if token:` on a str.
Truthy(s) == s # ""

ShowPerTokenKeepsText(token, st) ==
    [ret |-> <<token>>,
     state |-> [st EXCEPT !.response_text = st.response_text \o token]]

\* if show_thinking and return_per_token: return token
ShowPerToken(token, st) == [ret |-> <<token>>, state |-> st]

AccumulateReturnsToken(token, st) ==
    [ret |-> <<token>>,
     state |-> [st EXCEPT !.response_text = st.response_text \o token]]

\* state['response_text'] += token; return state['response_text']
Accumulate(token, st) ==
    [ret |-> <<st.response_text \o token>>,
     state |-> [st EXCEPT !.response_text = st.response_text \o token]]

\* The closing block without its test of state['is_in_thinking'].
EmitAlways(token, st, rpt) ==
    IF rpt THEN [ret |-> <<token>>, state |-> st] ELSE Accumulate(token, st)

\* The closing `if not state['is_in_thinking']:` block, falling off the end
\* of the function (None) while inside a thinking block.
EmitOutside(token, st, rpt) ==
    IF ~st.is_in_thinking
    THEN IF rpt THEN [ret |-> <<token>>, state |-> st]
         ELSE Accumulate(token, st)
    ELSE [ret |-> ReturnNone, state |-> st]

\* The `elif not show_thinking:` branch.
HideThinking(token, st, rpt, ph) ==
    IF token \in opening_thinking_tags
    THEN LET s1 == [st EXCEPT !.is_in_thinking = TRUE] IN
         IF Truthy(ph) THEN [ret |-> <<ph>>, state |-> s1]
         ELSE EmitOutside(ph, s1, rpt)
    ELSE IF token \in closing_thinking_tags
    THEN [ret |-> ReturnNone, state |-> [st EXCEPT !.is_in_thinking = FALSE]]
    ELSE EmitOutside(token, st, rpt)

\* process_output_token(token, state, show_thinking, return_per_token,
\* out_token_in_thinking_mode): the value returned and the state left.
process_output_token(token, st, show, rpt, ph) ==
    IF show /\ rpt THEN ShowPerToken(token, st)
    ELSE IF show /\ ~rpt THEN Accumulate(token, st)
    ELSE HideThinking(token, st, rpt, ph)

\* The raw spelling of a tag given in either spelling.
RawSpelling(token) ==
    IF token = "&lt;think&gt;" THEN "<think>"
    ELSE IF token = "&lt;/think&gt;" THEN "</think>"
    ELSE token

\* One token's record: the token, the flag before and after, the returned
\* value and the accumulated text left.
StepRecord(token, before, r) ==
    [token |-> token, before |-> before, after |-> r.state.is_in_thinking,
     ret |-> r.ret, acc |-> r.state.response_text]

\* The arguments of one stream() call.
StreamInit ==
    /\ SupervisorAtRest
    /\ RelayAtRest
    /\ OutputAtRest
    /\ ProbeAtRest
    /\ UtilsAtRest
    /\ ChatAtRest
    /\ show_thinking \in BOOLEAN
    /\ return_per_token \in BOOLEAN
    /\ out_token_in_thinking_mode \in Placeholders
    /\ StreamFresh

\* One iteration of stream()'s loop: the next token of the response goes
\* through process_output_token and is yielded if truthy.  The second stream
\* receives the same token in its raw spelling.
FeedOne(token) ==
    LET r == process_output_token(token, state, show_thinking,
                 return_per_token, out_token_in_thinking_mode)
        r2 == process_output_token(RawSpelling(token), state2,
                 show_thinking, return_per_token,
                 out_token_in_thinking_mode)
    IN /\ state' = r.state
       /\ steps' = Append(steps, StepRecord(token, state.is_in_thinking, r))
       /\ yields' = IF r.ret # ReturnNone /\ Truthy(r.ret[1])
                    THEN Append(yields, r.ret[1]) ELSE yields
       /\ state2' = r2.state
       /\ steps2' = Append(steps2,
              StepRecord(RawSpelling(token), state2.is_in_thinking, r2))

FeedToken ==
    /\ Len(steps) < MaxTokens
    /\ \E token \in Tokens : FeedOne(token)
    /\ UNCHANGED <<nonClientVars, show_thinking, return_per_token,
                   out_token_in_thinking_mode>>

StreamNext == FeedToken

StreamSpec == StreamInit /\ [][StreamNext]_vars

\* The tokens fed so far, and the values returned for them that are not None.
TokensFed == [i \in 1..Len(steps) |-> steps[i].token]

RECURSIVE NotNoneReturns(_)
NotNoneReturns(sq) ==
    IF sq = <<>> THEN <<>>
    ELSE LET h == sq[Len(sq)] IN
         IF h.ret = ReturnNone THEN NotNoneReturns(SubSeq(sq, 1, Len(sq) - 1))
         ELSE Append(NotNoneReturns(SubSeq(sq, 1, Len(sq) - 1)), h.ret[1])

ReturnedValues == NotNoneReturns(steps)

RECURSIVE Concat(_)
Concat(sq) == IF sq = <<>> THEN "" ELSE sq[1] \o Concat(Tail(sq))

StreamTypeOK ==
    /\ show_thinking \in BOOLEAN
    /\ return_per_token \in BOOLEAN
    /\ out_token_in_thinking_mode \in Placeholders
    /\ state.is_in_thinking \in BOOLEAN
    /\ state2.is_in_thinking \in BOOLEAN
    /\ Len(steps) = Len(steps2)
    /\ Len(steps) <= MaxTokens
    /\ Len(yields) <= Len(steps)


\* What the description of hidden thinking prescribes for a token sequence:
\* a block runs from an opening tag to the next closing tag; tokens outside a
\* block stand for themselves, each opening tag for the placeholder, tokens
\* inside a block and the block's closing tag for nothing.
RECURSIVE HiddenBlocksReplaced(_, _, _)
HiddenBlocksReplaced(toks, inBlock, ph) ==
    IF toks = <<>> THEN <<>>
    ELSE LET t == Head(toks) IN
         IF t \in {"<think>", "&lt;think&gt;"}
         THEN <<ph>> \o HiddenBlocksReplaced(Tail(toks), TRUE, ph)
         ELSE IF inBlock
         THEN HiddenBlocksReplaced(Tail(toks),
                  t \notin {"</think>", "&lt;/think&gt;"}, ph)
         ELSE <<t>> \o HiddenBlocksReplaced(Tail(toks), FALSE, ph)

\* Each opening tag is later followed by a closing tag.
EveryBlockClosed(toks) ==
    \A i \in 1..Len(toks) :
        toks[i] \in {"<think>", "&lt;think&gt;"} =>
            \E j \in (i + 1)..Len(toks) : toks[j] \in {"</think>", "&lt;/think&gt;"}

\* C14: with show_thinking false, return_per_token true and a non-empty
\* placeholder, for a token sequence whose opening tags are each later
\* followed by a closing tag, the values emitted are the tokens outside
\* thinking blocks unchanged and in order, the placeholder for each opening
\* tag, and nothing for the tokens inside a block and its closing tag.
C14_HiddenBlocksReplaced ==
    (/\ ~show_thinking
     /\ return_per_token
     /\ Truthy(out_token_in_thinking_mode)
     /\ EveryBlockClosed(TokensFed))
    => ReturnedValues
         = HiddenBlocksReplaced(TokensFed, FALSE, out_token_in_thinking_mode)

\* C15: with show_thinking and return_per_token both true, every token, tags
\* included, is returned unchanged, and the is_in_thinking flag and the
\* accumulated text keep their initial values.
C15_ShowPerTokenIsIdentity ==
    (show_thinking /\ return_per_token) =>
        /\ \A i \in 1..Len(steps) : steps[i].ret = <<steps[i].token>>
        /\ \A i \in 1..Len(steps) :
              /\ steps[i].after = InitialState.is_in_thinking
              /\ steps[i].acc = InitialState.response_text
        /\ state = InitialState

C15_Witness ==
    /\ show_thinking
    /\ return_per_token
    /\ TokensFed = <<"A", "<think>", "B", "</think>", "A">>
    /\ ReturnedValues = TokensFed

IsPrefix(s, t) == Len(s) <= Len(t) /\ SubSeq(t, 1, Len(s)) = s

\* C17: with return_per_token false, whatever show_thinking and the
\* placeholder are, every value emitted equals the accumulated text at that
\* moment and has the previously emitted value as a prefix.
C17_EmissionIsAccumulator ==
    ~return_per_token =>
        \A i \in 1..Len(steps) :
            steps[i].ret # ReturnNone =>
                /\ steps[i].ret[1] = steps[i].acc
                /\ \A j \in 1..(i - 1) :
                      steps[j].ret # ReturnNone =>
                          IsPrefix(steps[j].ret[1], steps[i].ret[1])

\* C18: with show_thinking false, a closing tag received while no thinking
\* block is open leaves the flag false and is emitted as an ordinary token
\* outside a block is: itself per token, the extended text when accumulating.
C18_StrayClosingIsOrdinary ==
    ~show_thinking =>
        \A i \in 1..Len(steps) :
            (steps[i].token \in {"</think>", "&lt;/think&gt;"} /\ ~steps[i].before)
            => /\ ~steps[i].after
               /\ steps[i].ret # ReturnNone
               /\ return_per_token => steps[i].ret = <<steps[i].token>>

\* C19: with show_thinking false, a stream and the same stream with every
\* tag in its raw spelling return the same values and go through the same
\* states, so any two streams that differ only in the spelling of tags do.
C19_SpellingsInterchangeable ==
    ~show_thinking =>
        /\ \A i \in 1..Len(steps) :
              /\ steps[i].ret = steps2[i].ret
              /\ steps[i].before = steps2[i].before
              /\ steps[i].after = steps2[i].after
              /\ steps[i].acc = steps2[i].acc
        /\ state = state2

C19_Witness ==
    /\ ~show_thinking
    /\ return_per_token
    /\ out_token_in_thinking_mode = ""
    /\ TokensFed = <<"&lt;think&gt;", "A", "</think>", "B", "<think>">>
    /\ [i \in 1..Len(steps) |-> steps[i].after] = <<TRUE, TRUE, FALSE, FALSE, TRUE>>
    /\ ReturnedValues = <<"B">>


(***************************************************************************)
(* Output relay: log_output reading one stream of the server a byte at a   *)
(* time through process_log_output_chunk (log_prefix = '', as start()      *)
(* calls it).                                                              *)
(***************************************************************************)

MaxBytes == 6

CR == "\r"
LF == "\n"
SP == " "
\* A byte that is not valid UTF-8 (0xff).
BadByte == "0xff"

\* The bytes stream.read(1) can deliver.
Bytes == {"a", "b", SP, CR, LF, BadByte}

\* bytes.decode() raises UnicodeDecodeError on an invalid byte.
Decodable(bs) == \A i \in 1..Len(bs) : bs[i] # BadByte

\* str.strip(): leading and trailing whitespace removed.
RECURSIVE LStrip(_)
LStrip(bs) == IF bs # <<>> /\ Head(bs) = SP THEN LStrip(Tail(bs)) ELSE bs

RECURSIVE RStrip(_)
RStrip(bs) ==
    IF bs # <<>> /\ bs[Len(bs)] = SP THEN RStrip(SubSeq(bs, 1, Len(bs) - 1))
    ELSE bs

Strip(bs) == Concat(RStrip(LStrip(bs)))

\* What print() writes: the in-place text of print('\r' + line, end=''), the
\* bare newline of print(), the text and newline of print(line).
InPlace(text) == [kind |-> "inplace", text |-> text]
Newline == [kind |-> "newline", text |-> ""]
Line(text) == [kind |-> "line", text |-> text]

OnCarriageReturnKeepsBad(buf, cr) ==
    LET pending == SubSeq(buf, 1, Len(buf) - 1) IN
    IF ~Decodable(pending)
    THEN [buffer |-> pending, last_was_cr |-> cr, out |-> <<>>]
    ELSE IF Strip(pending) # ""
    THEN [buffer |-> <<>>, last_was_cr |-> TRUE,
          out |-> <<InPlace(Strip(pending))>>]
    ELSE [buffer |-> <<>>, last_was_cr |-> cr, out |-> <<>>]

\* The `if chunk == b'\r':` branch on buffer buf (terminator included).
OnCarriageReturn(buf, cr) ==
    LET pending == SubSeq(buf, 1, Len(buf) - 1) IN
    IF Decodable(pending) /\ Strip(pending) # ""
    THEN [buffer |-> <<>>, last_was_cr |-> TRUE,
          out |-> <<InPlace(Strip(pending))>>]
    ELSE [buffer |-> <<>>, last_was_cr |-> cr, out |-> <<>>]

OnNewlineKeepsFlag(buf, cr) ==
    LET pending == SubSeq(buf, 1, Len(buf) - 1) IN
    IF Decodable(pending)
    THEN [buffer |-> <<>>, last_was_cr |-> cr,
          out |-> (IF cr THEN <<Newline>> ELSE <<>>)
                  \o (IF Strip(pending) # "" THEN <<Line(Strip(pending))>>
                      ELSE <<>>)]
    ELSE [buffer |-> <<>>, last_was_cr |-> cr, out |-> <<>>]

\* The `elif chunk == b'\n':` branch; decode() raises before anything is
\* printed or the flag is touched.
OnNewline(buf, cr) ==
    LET pending == SubSeq(buf, 1, Len(buf) - 1) IN
    IF Decodable(pending)
    THEN [buffer |-> <<>>, last_was_cr |-> FALSE,
          out |-> (IF cr THEN <<Newline>> ELSE <<>>)
                  \o (IF Strip(pending) # "" THEN <<Line(Strip(pending))>>
                      ELSE <<>>)]
    ELSE [buffer |-> <<>>, last_was_cr |-> cr, out |-> <<>>]

\* process_log_output_chunk(chunk, state, ''): the state left and the output.
process_log_output_chunk(chunk, buf, cr) ==
    LET b1 == Append(buf, chunk) IN
    IF chunk = CR THEN OnCarriageReturn(b1, cr)
    ELSE IF chunk = LF THEN OnNewline(b1, cr)
    ELSE [buffer |-> b1, last_was_cr |-> cr, out |-> <<>>]

RelayInit ==
    /\ SupervisorAtRest
    /\ ClientAtRest
    /\ OutputAtRest
    /\ ProbeAtRest
    /\ UtilsAtRest
    /\ ChatAtRest
    /\ RelayFresh

\* log_output: chunk = stream.read(1), non-empty.
RelayRead ==
    /\ relayPc = "reading"
    /\ nread < MaxBytes
    /\ \E chunk \in Bytes :
         LET r == process_log_output_chunk(chunk, buffer, last_was_cr) IN
         /\ buffer' = r.buffer
         /\ last_was_cr' = r.last_was_cr
         /\ printed' = printed \o r.out
         /\ lastByte' = <<[chunk |-> chunk, pending |-> buffer,
                           printedBefore |-> Len(printed)]>>
         /\ IF chunk \in {CR, LF} /\ ~Decodable(buffer)
            THEN UNCHANGED <<last_was_cr2, printed2>>
            ELSE LET r2 == process_log_output_chunk(chunk, buffer, last_was_cr2)
                 IN /\ last_was_cr2' = r2.last_was_cr
                    /\ printed2' = printed2 \o r2.out
    /\ nread' = nread + 1
    /\ UNCHANGED <<nonRelayVars, relayPc>>

FinalOutputNone(cr) == <<>>

\* log_output after the loop: if state['last_was_cr']: print()
FinalOutput(cr) == IF cr THEN <<Newline>> ELSE <<>>

\* log_output: the zero-length read ends the loop; the final print() and
\* stream.close().
RelayClose ==
    /\ relayPc = "reading"
    /\ relayPc' = "closed"
    /\ printed' = printed \o FinalOutput(last_was_cr)
    /\ lastByte' = <<>>
    /\ last_was_cr2' = last_was_cr2
    /\ printed2' = printed2 \o FinalOutput(last_was_cr2)
    /\ UNCHANGED <<nonRelayVars, buffer, last_was_cr, nread>>

RelayNext == RelayRead \/ RelayClose

RelaySpec == RelayInit /\ [][RelayNext]_vars

RelayTypeOK ==
    /\ last_was_cr \in BOOLEAN
    /\ relayPc \in {"reading", "closed"}
    /\ nread \in 0..MaxBytes
    /\ Len(buffer) <= nread
    /\ \A i \in 1..Len(buffer) : buffer[i] \in Bytes \ {CR, LF}
    /\ \A i \in 1..Len(printed) : printed[i].kind \in {"inplace", "newline", "line"}

\* What the last byte read made the relay print.
LastOut == SubSeq(printed, lastByte[1].printedBefore + 1, Len(printed))

\* The output that preceded the last byte read was an in-place update.
PrevWasInPlace ==
    /\ lastByte[1].printedBefore > 0
    /\ printed[lastByte[1].printedBefore].kind = "inplace"

\* C20: for every byte stream read a byte at a time, a carriage return
\* prints the pending text, if it is not blank, as an in-place update and
\* sets the mid-progress flag; a newline prints exactly one bare newline if
\* and only if the previous output was an in-place update, then the pending
\* text, if not blank, as a line, and leaves the flag clear; a bare newline
\* is never printed unless an in-place update is the output just before it.
C20_RelayPerByte ==
    /\ (lastByte # <<>> /\ Decodable(lastByte[1].pending)) =>
          LET text == Strip(lastByte[1].pending) IN
          /\ lastByte[1].chunk = CR =>
                /\ LastOut = IF text # "" THEN <<InPlace(text)>> ELSE <<>>
                /\ text # "" => last_was_cr
          /\ lastByte[1].chunk = LF =>
                /\ LastOut = (IF PrevWasInPlace THEN <<Newline>> ELSE <<>>)
                             \o (IF text # "" THEN <<Line(text)>> ELSE <<>>)
                /\ ~last_was_cr
          /\ lastByte[1].chunk \notin {CR, LF} => LastOut = <<>>
    /\ \A i \in 1..Len(printed) :
          printed[i].kind = "newline" =>
              i > 1 /\ printed[i - 1].kind = "inplace"

C20_Witness ==
    /\ lastByte # <<>>
    /\ lastByte[1].chunk = LF
    /\ lastByte[1].pending = <<>>
    /\ nread = 5
    /\ printed = <<InPlace("a"), InPlace("b"), Newline>>


\* The last thing printed is an in-place update, not yet followed by a
\* newline.
EndsInPlace(out) == out # <<>> /\ out[Len(out)].kind = "inplace"

\* C21: the zero-length read makes the relay print exactly one newline if
\* the last output was an in-place update, and nothing otherwise; the relay
\* is then closed, having read and buffered nothing more.
C21_FinalNewline ==
    [][(relayPc = "reading" /\ relayPc' = "closed") =>
          /\ printed' = IF EndsInPlace(printed) THEN Append(printed, Newline)
                        ELSE printed
          /\ nread' = nread
          /\ buffer' = buffer]_vars

C21_Witness ==
    /\ relayPc = "closed"
    /\ nread = 2
    /\ printed = <<InPlace("a"), Newline>>


\* C22: a pending segment that does not decode prints nothing on its
\* terminator and leaves the buffer empty, and at every moment the relay
\* has printed, and remembers, exactly what the relay of the same stream
\* without its undecodable segments has.
C22_InvalidSegmentSwallowed ==
    /\ (/\ lastByte # <<>>
        /\ lastByte[1].chunk \in {CR, LF}
        /\ ~Decodable(lastByte[1].pending))
       => LastOut = <<>> /\ buffer = <<>>
    /\ printed = printed2
    /\ last_was_cr = last_was_cr2

C22_Witness ==
    /\ lastByte # <<>>
    /\ lastByte[1].chunk = LF
    /\ lastByte[1].pending = <<"b", BadByte>>
    /\ printed = <<InPlace("a")>>
    /\ last_was_cr
    /\ buffer = <<>>

(***************************************************************************)
(* Output plumbing: what start() connects the child's stdout/stderr to,    *)
(* the log_output threads it launches, and what stop() does about them.    *)
(***************************************************************************)

MaxOutput == 4
PipeCapacity == 2

\* LlamaSyncServer.start: Popen(stdout=PIPE, stderr=PIPE) whatever verbose is.
SyncSink(vb) == "pipe"

\* LlamaAsyncServer.start: DEVNULL when not verbose, else the parent's own
\* stdout/stderr (outside a notebook).
AsyncSink(vb) == IF vb THEN "inherit" ELSE "devnull"

SinkOf(v, vb) == IF v = "sync" THEN SyncSink(vb) ELSE AsyncSink(vb)

\* The log_output threads are started by the sync start() when verbose.
RelayStarted(v, vb) == v = "sync" /\ vb

\* write() on the child's stdout blocks while the pipe is full.
CanWrite == sink # "pipe" \/ pipe < PipeCapacity

OutputInit ==
    /\ SupervisorAtRest
    /\ ClientAtRest
    /\ RelayAtRest
    /\ ProbeAtRest
    /\ UtilsAtRest
    /\ ChatAtRest
    /\ verbose \in BOOLEAN
    /\ plumbing \in Variants
    /\ OutputFresh

\* start(): the spawn and, when verbose, the threads.
OutStart ==
    /\ caller = "idle"
    /\ caller' = "started"
    /\ child' = "running"
    /\ sink' = SinkOf(plumbing, verbose)
    /\ relayTask' = IF RelayStarted(plumbing, verbose) THEN "running" ELSE "none"
    /\ \E n \in 0..MaxOutput : toWrite' = n
    /\ UNCHANGED <<nonOutVars, verbose, plumbing, pipe, relayedAfterStop>>

\* The server writes one byte of its startup output.
ChildWrite ==
    /\ child = "running"
    /\ toWrite > 0
    /\ CanWrite
    /\ toWrite' = toWrite - 1
    /\ pipe' = IF sink = "pipe" THEN pipe + 1 ELSE pipe
    /\ UNCHANGED <<nonOutVars, verbose, plumbing, sink, child, relayTask, caller,
                   relayedAfterStop>>

\* The server exits, by itself or on the signal of stop().
ChildExit ==
    /\ child = "running"
    /\ child' = "exited"
    /\ UNCHANGED <<nonOutVars, verbose, plumbing, sink, pipe, toWrite, relayTask,
                   caller, relayedAfterStop>>

\* log_output: stream.read(1) returns a byte, which is processed.
RelayTaskRead ==
    /\ relayTask = "running"
    /\ pipe > 0
    /\ pipe' = pipe - 1
    /\ relayedAfterStop' = (relayedAfterStop \/ caller = "stopped")
    /\ UNCHANGED <<nonOutVars, verbose, plumbing, sink, toWrite, child, relayTask,
                   caller>>

\* log_output: the zero-length read once the write end is closed and the
\* pipe is empty.
RelayTaskEnd ==
    /\ relayTask = "running"
    /\ pipe = 0
    /\ child = "exited"
    /\ relayTask' = "ended"
    /\ UNCHANGED <<nonOutVars, verbose, plumbing, sink, pipe, toWrite, child,
                   caller, relayedAfterStop>>

\* stop(): terminate() sent, waiting for the child.
OutStopBegin ==
    /\ caller = "started"
    /\ caller' = "stopping"
    /\ UNCHANGED <<nonOutVars, verbose, plumbing, sink, pipe, toWrite, child,
                   relayTask, relayedAfterStop>>

\* stop(): wait() returned, self.process = None, return.  Nothing in stop()
\* joins the log_output threads or closes their streams.
OutStopReturn ==
    /\ caller = "stopping"
    /\ child = "exited"
    /\ caller' = "stopped"
    /\ UNCHANGED <<nonOutVars, verbose, plumbing, sink, pipe, toWrite, child,
                   relayTask, relayedAfterStop>>

OutputNext ==
    \/ OutStart
    \/ ChildWrite
    \/ ChildExit
    \/ RelayTaskRead
    \/ RelayTaskEnd
    \/ OutStopBegin
    \/ OutStopReturn

OutputSpec == OutputInit /\ [][OutputNext]_vars

OutputTypeOK ==
    /\ verbose \in BOOLEAN
    /\ plumbing \in Variants
    /\ sink \in {"none", "pipe", "devnull", "inherit"}
    /\ pipe \in 0..PipeCapacity
    /\ toWrite \in 0..MaxOutput
    /\ child \in {"none", "running", "exited"}
    /\ relayTask \in {"none", "running", "ended"}
    /\ caller \in {"idle", "started", "stopping", "stopped"}
    /\ relayedAfterStop \in BOOLEAN

\* C23: when stop() has returned, no relay task of the stopped process is
\* still running, and none prints anything afterwards.
C23_RelayDrainedByStop ==
    caller = "stopped" => (relayTask # "running" /\ ~relayedAfterStop)


\* C24: with verbose false the child's stdout and stderr are discarded, in
\* both variants, so the child is never blocked writing to a full pipe.
C24_QuietOutputDiscarded ==
    ~verbose =>
        /\ child # "none" => sink = "devnull"
        /\ (child = "running" /\ toWrite > 0) => CanWrite


(***************************************************************************)
(* Advisory probes of the clients: LlamaSyncClient.check_health,           *)
(* LlamaAsyncClient._get_request and check_multimodal_support.             *)
(***************************************************************************)

MaxProbeCalls == 2

\* HTTP statuses a GET can be answered with.
Statuses == {200, 503, 404, 500}

\* What the body of a response can be: bytes that do not decode in the
\* response's charset, text that is not JSON, and JSON documents of the
\* shapes the probes look into.
Bodies == {"invalid_bytes", "not_json", "error_message", "empty_object",
           "error_string", "list", "vision"}

JsonObjects == {"error_message", "empty_object", "error_string", "vision"}

\* The outcomes of the underlying GET: an exception of the HTTP library, or
\* a response.
GetOutcomes ==
    [kind : {"error"}, exc : {"ConnectionError", "Timeout"},
     status : {0}, body : {"none"}]
    \cup [kind : {"response"}, exc : {"none"}, status : Statuses, body : Bodies]

ReturnValue(v) == [raised |-> "none", value |-> v]
RaiseOut(exc) == [raised |-> exc, value |-> NoValue]

HealthResult(ok, code, status) == [ok |-> ok, code |-> code, status |-> status]

\* check_health, status 503: resp.json(), then data.get('error', {}).get(
\* 'message', 'Loading'); anything raised lands in `except Exception`.
LoadingResult(o) ==
    IF o.body \in {"error_message", "empty_object", "vision"}
    THEN HealthResult(FALSE, o.status, "loading")
    ELSE HealthResult(FALSE, -1, "down")

\* LlamaSyncClient.check_health on one outcome of requests.get.
check_health(o) ==
    IF o.kind = "error" THEN ReturnValue(HealthResult(FALSE, -1, "down"))
    ELSE IF o.status = 200 THEN ReturnValue(HealthResult(TRUE, o.status, "ready"))
    ELSE IF o.status = 503 THEN ReturnValue(LoadingResult(o))
    ELSE ReturnValue(HealthResult(FALSE, o.status, "unavailable"))

\* response.json() of aiohttp: the body is decoded with the response's
\* charset (UnicodeDecodeError), then parsed (json.JSONDecodeError, or
\* ContentTypeError, a ClientError, for a body not declared as JSON).
AsyncJson(o) ==
    IF o.body = "invalid_bytes" THEN RaiseOut("UnicodeDecodeError")
    ELSE IF o.body = "not_json" THEN ReturnValue("None")
    ELSE ReturnValue(o.body)

\* LlamaAsyncClient._get_request: ClientError, JSONDecodeError and
\* asyncio.TimeoutError are logged and None is returned; raise_for_status()
\* raises a ClientError for a status of 400 and above.
get_request(o) ==
    IF o.kind = "error" THEN ReturnValue("None")
    ELSE IF o.status >= 400 THEN ReturnValue("None")
    ELSE AsyncJson(o)

\* `if props:` on what _get_request returned.
TruthyProps(v) == v \notin {"None", "empty_object"}

\* LlamaAsyncClient.check_multimodal_support
check_multimodal_support(o) ==
    LET props == get_request(o) IN
    IF props.raised # "none" THEN props
    ELSE IF TruthyProps(props.value)
         THEN IF props.value \in JsonObjects
              THEN ReturnValue(props.value = "vision")
              ELSE RaiseOut("AttributeError")
         ELSE ReturnValue(FALSE)

ProbeInit ==
    /\ SupervisorAtRest
    /\ ClientAtRest
    /\ RelayAtRest
    /\ OutputAtRest
    /\ ProbeAtRest
    /\ UtilsAtRest
    /\ ChatAtRest

CallProbe(op, o, r) ==
    /\ probeCalls < MaxProbeCalls
    /\ probeOp' = op
    /\ getOutcome' = o
    /\ probeResult' = r
    /\ probeCalls' = probeCalls + 1
    /\ UNCHANGED nonProbeVars

CheckHealth ==
    \E o \in GetOutcomes : CallProbe("check_health", o, check_health(o))

GetRequest ==
    \E o \in GetOutcomes : CallProbe("_get_request", o, get_request(o))

CheckMultimodalSupport ==
    \E o \in GetOutcomes :
        CallProbe("check_multimodal_support", o, check_multimodal_support(o))

ProbeNext == CheckHealth \/ GetRequest \/ CheckMultimodalSupport

ProbeSpec == ProbeInit /\ [][ProbeNext]_vars

ProbeTypeOK ==
    /\ probeOp \in {"none", "check_health", "_get_request",
                    "check_multimodal_support"}
    /\ probeCalls \in 0..MaxProbeCalls
    /\ probeOp # "none" => getOutcome \in GetOutcomes

\* C25: the sync health check answers every 503 with status 'loading',
\* ok false and code 503, whatever the body is; 200 with 'ready' and ok
\* true; any other status with 'unavailable'; ok is true exactly for 200.
C25_HealthClassification ==
    (probeOp = "check_health" /\ getOutcome.kind = "response") =>
        /\ probeResult.raised = "none"
        /\ getOutcome.status = 503 =>
              probeResult.value = HealthResult(FALSE, 503, "loading")
        /\ getOutcome.status = 200 =>
              probeResult.value = HealthResult(TRUE, 200, "ready")
        /\ getOutcome.status \notin {200, 503} =>
              probeResult.value.status = "unavailable"
        /\ probeResult.value.ok <=> getOutcome.status = 200

\* The GET failed: a network error or timeout, a status outside 2xx, or a
\* body that cannot be decoded.
GetFailed(o) ==
    \/ o.kind = "error"
    \/ o.status \notin {200}
    \/ o.body \in {"invalid_bytes", "not_json"}

\* C26: no probe raises; when the GET fails, check_health returns one
\* result with status ready, loading, unavailable or down, _get_request
\* returns None and check_multimodal_support returns False.
C26_ProbesNeverRaise ==
    (probeOp # "none" /\ GetFailed(getOutcome)) =>
        /\ probeResult.raised = "none"
        /\ probeOp = "check_health" =>
              probeResult.value.status
                  \in {"ready", "loading", "unavailable", "down"}
        /\ probeOp = "_get_request" => probeResult.value = "None"
        /\ probeOp = "check_multimodal_support" => probeResult.value = FALSE


(***************************************************************************)
(* Chat stream: the response events of one request going through the raw   *)
(* token generator (_stream_chat_completion_tokens /                       *)
(* _astream_chat_completion_tokens) and the loop of stream() / astream().  *)
(***************************************************************************)

MaxEvents == 4

\* chunk.choices[0].delta.content of an event: None (<<>>) or a string.
Deltas == {<<>>, <<"">>, <<"A">>, <<"<think>">>, <<"</think>">>}

\* sync: `if (token := ...content) is not None: yield token`
SyncYields(delta) == delta # <<>>

\* async: `if token: yield token`
AsyncYields(delta) == delta # <<>> /\ Truthy(delta[1])

RawYields(kind, delta) ==
    IF kind = "sync" THEN SyncYields(delta) ELSE AsyncYields(delta)

TransportErrorSwallowed == "completed"

\* Neither the generator nor stream() catches anything: an exception of the
\* underlying iterator leaves stream() at the `for`.
OnTransportError == "raised"

ChatInit ==
    /\ SupervisorAtRest
    /\ RelayAtRest
    /\ OutputAtRest
    /\ ProbeAtRest
    /\ UtilsAtRest
    /\ show_thinking \in BOOLEAN
    /\ return_per_token \in BOOLEAN
    /\ out_token_in_thinking_mode \in Placeholders
    /\ StreamFresh
    /\ clientKind \in Variants
    /\ ChatFresh

\* The underlying iterator delivers one event; the generator yields its
\* delta or skips it, and stream() processes what was yielded.
NextEvent ==
    /\ streamStatus = "open"
    /\ Len(events) < MaxEvents
    /\ \E delta \in Deltas :
         /\ events' = Append(events, delta)
         /\ IF RawYields(clientKind, delta)
            THEN /\ rawTokens' = Append(rawTokens, delta[1])
                 /\ FeedOne(delta[1])
            ELSE UNCHANGED <<rawTokens, state, steps, yields, state2, steps2>>
    /\ UNCHANGED <<nonChatVars, show_thinking, return_per_token,
                   out_token_in_thinking_mode, clientKind, transport,
                   streamStatus>>

\* The underlying iterator raises instead of delivering the next event.
TransportFails ==
    /\ streamStatus = "open"
    /\ transport' = "failed"
    /\ streamStatus' = OnTransportError
    /\ UNCHANGED <<nonChatVars, clientVars, clientKind, events, rawTokens>>

\* The underlying iterator is exhausted: the generator and stream() return.
StreamCompletes ==
    /\ streamStatus = "open"
    /\ streamStatus' = "completed"
    /\ UNCHANGED <<nonChatVars, clientVars, clientKind, events, rawTokens,
                   transport>>

ChatNext == NextEvent \/ TransportFails \/ StreamCompletes

ChatSpec == ChatInit /\ [][ChatNext]_vars

ChatTypeOK ==
    /\ clientKind \in Variants
    /\ transport \in {"ok", "failed"}
    /\ streamStatus \in {"open", "completed", "raised"}
    /\ Len(events) <= MaxEvents
    /\ Len(rawTokens) <= Len(events)
    /\ Len(steps) = Len(rawTokens)

\* The contents of the events whose delta is present and not empty, in order.
RECURSIVE NonEmptyContents(_)
NonEmptyContents(evs) ==
    IF evs = <<>> THEN <<>>
    ELSE IF Head(evs) = <<>> \/ Head(evs) = <<"">>
         THEN NonEmptyContents(Tail(evs))
         ELSE <<Head(evs)[1]>> \o NonEmptyContents(Tail(evs))

\* C27: in both clients the raw token stream skips every event whose delta
\* is absent or empty: the raw tokens are the non-empty contents of the
\* events, in the order of the events, and none is the empty string.
C27_NoEmptyRawToken ==
    /\ \A i \in 1..Len(rawTokens) : rawTokens[i] # ""
    /\ rawTokens = NonEmptyContents(events)


\* What stream() yields for a sequence of events when nothing fails: the
\* truthy results of process_output_token on the deltas the generator of
\* this client yields, starting from state st.
RECURSIVE ChunksOf(_, _)
ChunksOf(evs, st) ==
    IF evs = <<>> THEN <<>>
    ELSE IF ~RawYields(clientKind, Head(evs)) THEN ChunksOf(Tail(evs), st)
    ELSE LET r == process_output_token(Head(evs)[1], st, show_thinking,
                      return_per_token, out_token_in_thinking_mode)
         IN (IF r.ret # ReturnNone /\ Truthy(r.ret[1]) THEN <<r.ret[1]>>
             ELSE <<>>) \o ChunksOf(Tail(evs), r.state)

Polling == pc \in {"wait_check", "probe"}

\* start() has invoked stop() and has not returned yet.
StopInvokedByStart == result = InFlight("start") /\ stopRet # "none"

\* C29: while start() polls, no stop() it invokes has begun and no signal
\* has been sent; once start() has invoked stop(), no health probe and no
\* exit check of that start() follows.
C29_PollingBeforeStop ==
    /\ [](Polling => (stopRet = "none" /\ calls = <<>>))
    /\ [][StopInvokedByStart =>
             (probes' = probes /\ exitObs' = exitObs /\ ~Polling')]_vars

C29_Witness ==
    /\ StopInvokedByStart
    /\ calls = <<"terminate">>
    /\ probes >= 1
    /\ pc = "stop_wait"


\* How stop() of variant v can go on from its terminate() and from its
\* kill(), on a child that has or has not exited: the handle ends None, the
\* error leaves stop() with the handle still set, or stop() waits.
TerminateEndings(v, exited) ==
    {IF o = "lookup_error"
     THEN (IF TerminateInTry(v) THEN "handle_None" ELSE "raises")
     ELSE (IF exited THEN "handle_None" ELSE "waits") :
        o \in SignalOutcomes(v, exited)}

KillEndings(v, exited) ==
    {IF o = "lookup_error" THEN "raises" ELSE "handle_None" :
        o \in SignalOutcomes(v, exited)}

\* C30: the sync and the async supervisor are the same state machine: on the
\* same observations (child exited or not when terminate() is called, and
\* when the grace period has expired and kill() is called) stop() can end in
\* the same ways in both variants, with the same final handle state.
C30_VariantsAgree ==
    /\ (pc = "stop_enter" /\ process # None) =>
          LET exited == procs[process].st = "exited" IN
          TerminateEndings("sync", exited) = TerminateEndings("async", exited)
    /\ (pc = "stop_wait" /\ GraceExpired(stopWaited)) =>
          LET exited == procs[process].st = "exited" IN
          KillEndings("sync", exited) = KillEndings("async", exited)


\* The readiness waits of start() with wait_for_ready=True, followed up to
\* the moment wait_for_server_ready is left, with the steps of the thread
\* inside it taken when they can be.
LiveInit == Init /\ wait_for_ready

LiveNext ==
    \/ Construct
    \/ StartCall
    \/ WaitCheck
    \/ Probe
    \/ ProcExit

LiveSpec ==
    /\ LiveInit
    /\ [][LiveNext]_vars
    /\ WF_vars(WaitCheck)
    /\ WF_vars(Probe)

\* C31: with 503 observed only finitely many times (at most Max503 in a
\* run), a readiness wait that has begun is eventually left: by the 200, by
\* the observed exit of the process, or by the end of its budget.
C31_WaitTerminates == Polling ~> ~Polling

C31_Witness ==
    /\ wait_for_ready
    /\ n503 = Max503
    /\ probes > Max503
    /\ failCause = "timeout"
    /\ pc = "stop_enter"


\* C32: with show_thinking false and a non-empty placeholder, the
\* placeholder is returned for the opening tag that enters a thinking block
\* and for no other token until the block is closed, further opening tags
\* included.
C32_PlaceholderOncePerBlock ==
    (~show_thinking /\ Truthy(out_token_in_thinking_mode)) =>
        \A i \in 1..Len(steps) :
            /\ (steps[i].token \in {"<think>", "&lt;think&gt;"}
                   /\ ~steps[i].before)
               => steps[i].ret = <<out_token_in_thinking_mode>>
            /\ steps[i].before => steps[i].ret = ReturnNone


(***************************************************************************)
(* The supervisor used as a context manager: __enter__ calls start(),      *)
(* __exit__ calls stop(), whether the body ended normally or raised.       *)
(***************************************************************************)

\* __enter__ / __aenter__: self.start(), once per with-statement.
Enter == StartCall /\ spawned = 0

\* __exit__ / __aexit__: self.stop(), after the body, which runs only if
\* __enter__ returned.
Exit == StopCall /\ StartReturned /\ stopsInRow = 0

WithNext ==
    \/ Construct
    \/ Enter
    \/ WaitCheck
    \/ Probe
    \/ Exit
    \/ StopEnter
    \/ StopWait
    \/ StopKilled
    \/ StopExit
    \/ ProcExit

WithSpec == Init /\ [][WithNext]_vars

\* C33: when the with-statement is over the instance holds no process: after
\* __exit__ the stop() has run to its end and the handle is None, and when
\* __enter__ failed because start() raised the handle is None as well.
C33_WithLeavesProcessFree ==
    /\ (StopCompleted /\ pc = "idle") =>
          (result = Returned("stop") /\ process = None)
    /\ (StartFailed /\ pc = "idle") => process = None


(***************************************************************************)
(* LLMFormatter.prepare_gradio_chatbot_messages_to_openai.  A message is   *)
(* a record of its role and its content; the content is either a string    *)
(* (isList = FALSE, text) or a list of content items (isList = TRUE,       *)
(* items).  A content item has a type, a text and a reference (the path    *)
(* of a file item, the data URL of an image item).                         *)
(***************************************************************************)

MaxChat == 4
MaxHistoryLen == 2

image_extension == {".png", ".jpg", ".jpeg", ".webp"}

\* Path(path).suffix.lower() of the paths used here.
Suffix(path) ==
    IF path = "a.png" THEN ".png"
    ELSE IF path = "a.txt" THEN ".txt"
    ELSE ""

StrMessage(role, text) ==
    [role |-> role, isList |-> FALSE, text |-> text, items |-> <<>>]

ListMessage(role, items) ==
    [role |-> role, isList |-> TRUE, text |-> "", items |-> items]

TextItem(type, text) == [type |-> type, text |-> text, ref |-> ""]
FileItem(path) == [type |-> "file", text |-> "", ref |-> path]
ImageItem(type, url) == [type |-> type, text |-> "", ref |-> url]

\* The messages a Gradio chatbot history is made of here: a plain string, a
\* list with one text, and a list with an image file and a text file.
GradioMessages ==
    { StrMessage("assistant", "hi"),
      ListMessage("user", <<TextItem("text", "t")>>),
      ListMessage("user", <<FileItem("a.png"), FileItem("a.txt")>>) }

Histories == UNION { [1..n -> GradioMessages] : n \in 0..MaxChat }

\* LLMFormatter._prepare_image_to_base64: the encoded image of a readable
\* file with an image suffix, None (here "") for any other suffix.
prepare_image_to_base64(path) ==
    IF Suffix(path) \in image_extension THEN "base64:" \o path ELSE ""

create_message_content_from_text(text, use_responses_api) ==
    TextItem(IF use_responses_api THEN "input_text" ELSE "text", text)

\* <<>> stands for the None returned when the image could not be prepared.
create_message_content_from_image(path, use_responses_api) ==
    LET image_base64 == prepare_image_to_base64(path) IN
    IF image_base64 # ""
    THEN <<ImageItem(IF use_responses_api THEN "input_image" ELSE "image_url",
                     "data:image/png;base64," \o image_base64)>>
    ELSE <<>>

create_message_from_text(text, use_responses_api) ==
    ListMessage("user",
        <<TextItem(IF use_responses_api THEN "input_text" ELSE "text", text)>>)

\* <<>> stands for the None returned when the image could not be prepared.
create_message_from_image(path, use_responses_api, text) ==
    LET image_content == create_message_content_from_image(path, use_responses_api) IN
    IF image_content # <<>>
    THEN <<ListMessage("user",
              image_content \o
              (IF text # ""
               THEN <<create_message_content_from_text(text, use_responses_api)>>
               ELSE <<>>))>>
    ELSE <<>>

\* The inner loop of _prepare_gradio_chatbot_image_messages_to_openai over
\* the content items of one message.
RECURSIVE ConvertItems(_, _)
ConvertItems(items, use_responses_api) ==
    IF items = <<>> THEN <<>>
    ELSE LET content == Head(items)
             rest == ConvertItems(Tail(items), use_responses_api) IN
         IF content.type = "text"
         THEN <<create_message_content_from_text(content.text, use_responses_api)>>
              \o rest
         ELSE IF content.type = "file" /\ Suffix(content.ref) \in image_extension
         THEN create_message_content_from_image(content.ref, use_responses_api)
              \o rest
         ELSE rest

\* A message whose content is a list is converted and kept if anything is
\* left of its content.
ConvertListMessage(m, use_responses_api) ==
    LET content == ConvertItems(m.items, use_responses_api) IN
    IF content # <<>> THEN <<ListMessage(m.role, content)>> ELSE <<>>

\* A message whose content is not a list is skipped (`continue`).
SkipNotList(m) == <<>>

\* LLMFormatter._prepare_gradio_chatbot_image_messages_to_openai
RECURSIVE prepare_gradio_chatbot_image_messages_to_openai(_, _)
prepare_gradio_chatbot_image_messages_to_openai(messages, use_responses_api) ==
    IF messages = <<>> THEN <<>>
    ELSE (IF ~Head(messages).isList
          THEN SkipNotList(Head(messages))
          ELSE ConvertListMessage(Head(messages), use_responses_api))
         \o prepare_gradio_chatbot_image_messages_to_openai(
                Tail(messages), use_responses_api)

\* chatbot[:-1][-(history_len*2):] for a history_len other than 0
HistorySlice(chatbot, history_len) ==
    LET older == IF chatbot = <<>> THEN <<>>
                 ELSE SubSeq(chatbot, 1, Len(chatbot) - 1)
        n == 2 * history_len IN
    IF Len(older) <= n THEN older
    ELSE SubSeq(older, Len(older) - n + 1, Len(older))

prepare_gradio_chatbot_messages_to_openai(a) ==
    LET system == IF a.support_system_role /\ a.system_prompt # ""
                  THEN <<StrMessage("system", a.system_prompt)>>
                  ELSE <<>>
        extended == system \o HistorySlice(a.chatbot, a.history_len)
        messages ==
            IF a.history_len # 0
            THEN IF a.convert_to_openai_format
                 THEN prepare_gradio_chatbot_image_messages_to_openai(
                          extended, a.use_responses_api)
                 ELSE extended
            ELSE system
        text_message == create_message_from_text(a.user_message, a.use_responses_api)
        message == create_message_from_image(a.image_path, a.use_responses_api,
                                             a.user_message) IN
    IF a.image_path = "" THEN Append(messages, text_message)
    ELSE IF message # <<>> THEN messages \o message
    ELSE Append(messages, text_message)

FormatArgs ==
    [system_prompt : {"", "S"},
     support_system_role : BOOLEAN,
     history_len : 0..MaxHistoryLen,
     user_message : {"", "Q"},
     image_path : {"", "a.png", "a.txt"},
     chatbot : Histories,
     convert_to_openai_format : BOOLEAN,
     use_responses_api : BOOLEAN]

FormatInit ==
    /\ SupervisorAtRest
    /\ ClientAtRest
    /\ RelayAtRest
    /\ OutputAtRest
    /\ ProbeAtRest
    /\ ChatAtRest
    /\ EnvAtRest
    /\ CacheAtRest
    /\ fmtArgs \in FormatArgs
    /\ fmtMessages = <<>>
    /\ fmtDone = FALSE

PrepareMessages ==
    /\ ~fmtDone
    /\ fmtMessages' = prepare_gradio_chatbot_messages_to_openai(fmtArgs)
    /\ fmtDone' = TRUE
    /\ UNCHANGED <<nonFmtVars, fmtArgs>>

FormatNext == PrepareMessages

FormatSpec == FormatInit /\ [][FormatNext]_vars

FormatTypeOK ==
    /\ fmtArgs \in FormatArgs \cup {NoArgs}
    /\ fmtDone \in BOOLEAN
    /\ Len(fmtMessages) <= 2 * MaxHistoryLen + 2

\* The last message is the one made for the current user input.
EndsWithUserInput ==
    /\ fmtMessages # <<>>
    /\ LET last == fmtMessages[Len(fmtMessages)] IN
       /\ last.role = "user"
       /\ last.isList
       /\ \E k \in 1..Len(last.items) :
              \/ /\ last.items[k].type \in {"text", "input_text"}
                 /\ last.items[k].text = fmtArgs.user_message
              \/ /\ last.items[k].type \in {"image_url", "input_image"}
                 /\ fmtArgs.image_path # ""

\* C34: whenever support_system_role is true and system_prompt is not empty,
\* the returned list starts with the system message, for every history_len
\* and every convert_to_openai_format, is followed by at most 2*history_len
\* history messages and ends with one message for the current user input.
C34_SystemPromptKept ==
    (fmtDone /\ fmtArgs.support_system_role /\ fmtArgs.system_prompt # "") =>
        /\ Len(fmtMessages) >= 2
        /\ fmtMessages[1] = StrMessage("system", fmtArgs.system_prompt)
        /\ Len(fmtMessages) - 2 <= 2 * fmtArgs.history_len
        /\ EndsWithUserInput


(***************************************************************************)
(* LlamaEnv: clearing of the llama.cpp environment variables.  A name is   *)
(* a sequence of pieces, so that startswith is a prefix test on the name.  *)
(***************************************************************************)

MaxClears == 2

LLAMA_ARG_PREFIXES == { <<"LLAMA_", "ARG_">>, <<"LLAMA_", "LOG_">> }

LLAMA_MODEL_PREFIXES ==
    { <<"LLAMA_", "ARG_", "MODEL">>,
      <<"LLAMA_", "ARG_", "HF">>,
      <<"LLAMA_", "ARG_", "MMPROJ">> }

EnvNames ==
    { <<"LLAMA_", "ARG_", "MODEL">>,
      <<"LLAMA_", "ARG_", "MODEL", "_URL">>,
      <<"LLAMA_", "ARG_", "HF", "_REPO">>,
      <<"LLAMA_", "ARG_", "CTX_SIZE">>,
      <<"LLAMA_", "LOG_", "FILE">>,
      <<"LLAMA_", "API_KEY">>,
      <<"PATH">> }

VarValues == {"1", "2"}

Environments == UNION { [S -> VarValues] : S \in SUBSET EnvNames }

\* key == prefix instead of key.startswith(prefix)
StartsWithWholeName(key, prefix) == key = prefix

\* key.startswith(prefix)
startswith(key, prefix) ==
    /\ Len(prefix) <= Len(key)
    /\ \A i \in 1..Len(prefix) : key[i] = prefix[i]

\* del os.environ[key]
DelKey(env, key) == [k \in (DOMAIN env) \ {key} |-> env[k]]

\* The loop of _clear_vars.  Iterating os.environ walks a list of the keys
\* taken when the iteration starts, so deleting inside the loop does not
\* disturb it.
RECURSIVE ClearLoop(_, _, _, _)
ClearLoop(keys, env, removed, prefixes) ==
    IF keys = {} THEN [environ |-> env, removed |-> removed]
    ELSE LET key == CHOOSE k \in keys : TRUE IN
         IF \E prefix \in prefixes : startswith(key, prefix)
         THEN ClearLoop(keys \ {key}, DelKey(env, key), removed + 1, prefixes)
         ELSE ClearLoop(keys \ {key}, env, removed, prefixes)

\* LlamaEnv._clear_vars
clear_vars(env, prefixes) == ClearLoop(DOMAIN env, env, 0, prefixes)

PrefixesOf(op) ==
    IF op = "clear_all_vars" THEN LLAMA_ARG_PREFIXES ELSE LLAMA_MODEL_PREFIXES

EnvInit ==
    /\ SupervisorAtRest
    /\ ClientAtRest
    /\ RelayAtRest
    /\ OutputAtRest
    /\ ProbeAtRest
    /\ ChatAtRest
    /\ FormatAtRest
    /\ CacheAtRest
    /\ environ \in Environments
    /\ envCalls = <<>>

ClearCall(op) ==
    /\ Len(envCalls) < MaxClears
    /\ LET r == clear_vars(environ, PrefixesOf(op)) IN
       /\ environ' = r.environ
       /\ envCalls' = Append(envCalls, [op |-> op, before |-> environ,
                                        after |-> r.environ, ret |-> r.removed])
    /\ UNCHANGED nonEnvVars

\* LlamaEnv.clear_all_vars
ClearAllVars == ClearCall("clear_all_vars")

\* LlamaEnv.clear_model_vars
ClearModelVars == ClearCall("clear_model_vars")

EnvNext == ClearAllVars \/ ClearModelVars

EnvSpec == EnvInit /\ [][EnvNext]_vars

EnvTypeOK ==
    /\ environ \in Environments
    /\ Len(envCalls) <= MaxClears
    /\ \A i \in 1..Len(envCalls) :
           /\ envCalls[i].op \in {"clear_all_vars", "clear_model_vars"}
           /\ envCalls[i].ret \in 0..Cardinality(EnvNames)

\* The names of an environment that start with one of the prefixes.
Matching(env, prefixes) ==
    { k \in DOMAIN env : \E prefix \in prefixes : IsPrefix(prefix, k) }

\* C35: after clear_all_vars / clear_model_vars no variable whose name starts
\* with one of the prefixes remains, the returned integer is the number of
\* variables that matched before the call, every other variable is left
\* unchanged, and a second call in a row removes nothing and returns 0.
C35_ClearRemovesExactlyMatching ==
    \A i \in 1..Len(envCalls) :
        LET c == envCalls[i]
            P == PrefixesOf(c.op) IN
        /\ Matching(c.after, P) = {}
        /\ c.ret = Cardinality(Matching(c.before, P))
        /\ DOMAIN c.after = (DOMAIN c.before) \ Matching(c.before, P)
        /\ \A k \in DOMAIN c.after : c.after[k] = c.before[k]
        /\ (i > 1 /\ envCalls[i - 1].op = c.op) =>
               (c.ret = 0 /\ c.after = c.before)

\* clear_model_vars removed three variables and kept four, then ran again.
C35_Witness ==
    /\ Len(envCalls) = 2
    /\ envCalls[1].op = "clear_model_vars"
    /\ envCalls[2].op = "clear_model_vars"
    /\ envCalls[1].ret = 3
    /\ DOMAIN envCalls[1].before = EnvNames
    /\ Cardinality(DOMAIN environ) = 4


\* C36: the startup-timeout override is honoured.  With the budget taken from
\* TIMEOUT_WAIT_FOR_SERVER the wait is not left by an exception, and start()
\* fails only after the server has been probed at least once or the process
\* has been seen to exit: a server that answers 200 to the first probe makes
\* start() return.
C36_OverrideHonoured ==
    (wait_for_ready /\ timeoutKind = "str") =>
        /\ failCause # "exception"
        /\ StartFailed => (probes >= 1 \/ failCause = "exited")


\* The text of the ordinary tokens received outside a thinking block among
\* the first n tokens of the stream.
RECURSIVE VisibleText(_)
VisibleText(n) ==
    IF n = 0 THEN ""
    ELSE IF ~steps[n].before
            /\ steps[n].token \notin opening_thinking_tags \cup closing_thinking_tags
         THEN VisibleText(n - 1) \o steps[n].token
         ELSE VisibleText(n - 1)

\* C37: with show_thinking false, in both accumulation modes and for every
\* placeholder, a token received inside a thinking block is never emitted
\* (nothing is returned for it, or the placeholder for a further opening
\* tag), and with return_per_token false the accumulated text consists of
\* the ordinary tokens received outside thinking blocks only.
C37_HiddenNeverReachesCaller ==
    ~show_thinking =>
        \A i \in 1..Len(steps) :
            /\ steps[i].before =>
                  \/ steps[i].ret = ReturnNone
                  \/ /\ steps[i].token \in opening_thinking_tags
                     /\ steps[i].ret = <<out_token_in_thinking_mode>>
            /\ ~return_per_token => steps[i].acc = VisibleText(i)
            /\ (~return_per_token /\ steps[i].ret # ReturnNone) =>
                  steps[i].ret \in {<<VisibleText(i)>>,
                                    <<out_token_in_thinking_mode>>}

\* Text, a hidden block with content, text again, in accumulate mode.
C37_Witness ==
    /\ ~show_thinking
    /\ ~return_per_token
    /\ out_token_in_thinking_mode = "Thinking ..."
    /\ Len(steps) = 5
    /\ [i \in 1..5 |-> steps[i].token] = <<"A", "<think>", "B", "</think>", "A">>
    /\ steps[5].acc = "AA"
    /\ yields = <<"A", "Thinking ...", "AA">>


\* C38: no bytes read are dropped at stream close: when the relay has closed
\* with a decodable, non-blank segment still pending, that segment is the
\* last text it printed.
C38_NothingDroppedAtClose ==
    (relayPc = "closed" /\ Decodable(buffer) /\ Strip(buffer) # "") =>
        \E i \in 1..Len(printed) :
            /\ printed[i].kind \in {"inplace", "line"}
            /\ printed[i].text = Strip(buffer)
            /\ \A j \in (i + 1)..Len(printed) : printed[j].kind = "newline"


(***************************************************************************)
(* The same model output delivered under two tokenizations: the first      *)
(* stream receives every tag as a token of its own, the second receives    *)
(* the same text with a tag split over two tokens or glued to the text     *)
(* before it.                                                              *)
(***************************************************************************)

\* Pieces of model output, each with two ways the server may cut it.
Tokenizations ==
    { [one |-> <<"<think>">>, other |-> <<"<th", "ink>">>],
      [one |-> <<"</think>">>, other |-> <<"</th", "ink>">>],
      [one |-> <<"A", "<think>">>, other |-> <<"A<think>">>],
      [one |-> <<"A">>, other |-> <<"A">>],
      [one |-> <<"B">>, other |-> <<"B">>] }

\* stream()'s loop over the tokens of one piece: the state left, the records
\* of the tokens and what was yielded.
RECURSIVE FeedAll(_, _, _, _)
FeedAll(tokens, st, recs, out) ==
    IF tokens = <<>> THEN [state |-> st, steps |-> recs, yields |-> out]
    ELSE LET token == Head(tokens)
             r == process_output_token(token, st, show_thinking,
                      return_per_token, out_token_in_thinking_mode) IN
         FeedAll(Tail(tokens), r.state,
                 Append(recs, StepRecord(token, st.is_in_thinking, r)),
                 IF r.ret # ReturnNone /\ Truthy(r.ret[1])
                 THEN Append(out, r.ret[1]) ELSE out)

FeedPiece ==
    /\ Len(steps) < MaxTokens
    /\ Len(steps2) < MaxTokens
    /\ \E p \in Tokenizations :
          LET r == FeedAll(p.one, state, steps, yields)
              r2 == FeedAll(p.other, state2, steps2, <<>>) IN
          /\ state' = r.state
          /\ steps' = r.steps
          /\ yields' = r.yields
          /\ state2' = r2.state
          /\ steps2' = r2.steps
    /\ UNCHANGED <<nonClientVars, show_thinking, return_per_token,
                   out_token_in_thinking_mode>>

SplitNext == FeedPiece

SplitSpec == StreamInit /\ [][SplitNext]_vars

\* Both streams have received the same text.
SplitTypeOK ==
    /\ Concat([i \in 1..Len(steps) |-> steps[i].token])
         = Concat([i \in 1..Len(steps2) |-> steps2[i].token])
    /\ \A p \in Tokenizations : Concat(p.one) = Concat(p.other)
    /\ Len(steps) <= MaxTokens + 1
    /\ Len(steps2) <= MaxTokens + 1

\* C39: with show_thinking false, two token sequences with the same
\* concatenation give the same concatenated per-token output.
C39_TokenizationIndependent ==
    (~show_thinking /\ return_per_token) =>
        Concat(NotNoneReturns(steps)) = Concat(NotNoneReturns(steps2))


(***************************************************************************)
(* The release manager's cache.  A release directory holds the files       *)
(* extracted so far and possibly the downloaded archive; llama-server is   *)
(* the first file of the archive.                                          *)
(***************************************************************************)

MaxConstructions == 3
ArchiveFiles == 2

\* What can happen to one download_and_extract_zip.
DownloadOutcomes ==
    { [kind |-> "refused", files |-> 0],       \* status other than 200
      [kind |-> "cut", files |-> 0],           \* the transfer breaks off
      [kind |-> "complete", files |-> ArchiveFiles] }
    \cup { [kind |-> "extract_failed", files |-> n] : n \in 0..(ArchiveFiles - 1) }

\* download_and_extract_zip: the directory is made first, the archive is
\* written into it, extracted and removed; an exception leaves what is there.
download_and_extract_zip(o) ==
    IF o.kind = "refused" THEN [zip |-> "none", files |-> 0]
    ELSE IF o.kind = "cut" THEN [zip |-> "partial", files |-> 0]
    ELSE IF o.kind = "extract_failed" THEN [zip |-> "whole", files |-> o.files]
    ELSE [zip |-> "none", files |-> ArchiveFiles]

\* release_dir.exists()
Exists(d) == d # Absent

\* LlamaReleaseManager.validate_release_dir
validate_release_dir(d) == Exists(d) /\ d.files >= 1

\* GithubReleaseManager.__init__ from `if not self.release_dir.exists():` on,
\* then LlamaReleaseManager.ensure_release_dir.
ConstructManager ==
    /\ constructions < MaxConstructions
    /\ \E tag \in Tags, o \in DownloadOutcomes :
          LET cached == Exists(cache[tag])
              d == IF cached THEN cache[tag] ELSE download_and_extract_zip(o)
              raised == IF ~cached /\ o.kind # "complete" THEN "download"
                        ELSE IF ~validate_release_dir(d) THEN "ValueError"
                        ELSE "none" IN
          /\ cache' = [cache EXCEPT ![tag] = d]
          /\ completed' = [completed EXCEPT
                              ![tag] = @ \/ (~cached /\ o.kind = "complete")]
          /\ lastConstruct' = <<[tag |-> tag, cached |-> cached, raised |-> raised]>>
    /\ constructions' = constructions + 1
    /\ UNCHANGED nonCacheVars

CacheInit ==
    /\ SupervisorAtRest
    /\ ClientAtRest
    /\ RelayAtRest
    /\ OutputAtRest
    /\ ProbeAtRest
    /\ ChatAtRest
    /\ FormatAtRest
    /\ EnvAtRest
    /\ CacheAtRest

CacheNext == ConstructManager

CacheSpec == CacheInit /\ [][CacheNext]_vars

CacheTypeOK ==
    /\ constructions \in 0..MaxConstructions
    /\ \A t \in Tags :
          /\ cache[t].files \in 0..ArchiveFiles
          /\ cache[t].zip \in {"absent", "none", "partial", "whole"}
          /\ completed[t] \in BOOLEAN

\* C40: a release directory is treated as cached (the download is skipped)
\* only if an earlier download-and-extract for the same release ran to
\* completion.
C40_CacheHoldsCompleteReleases ==
    (lastConstruct # <<>> /\ lastConstruct[1].cached) =>
        completed[lastConstruct[1].tag]


====
